---- MODULE Spec2Model ----
(***************************************************************************)
(* Model of hitl_server.py: the single MCP tool ask_clarification.         *)
(*                                                                         *)
(* Text is a sequence of one-character strings, so that strip(), split(),  *)
(* rstrip(), isdigit(), int(), lower() and str() are computed character by *)
(* character as Python computes them.                                      *)
(***************************************************************************)
EXTENDS Integers, Sequences, FiniteSets, TLC

VARIABLES
    pc,        \* where the call is: "idle", "waiting" (suspended in wait_for), "expired", "done"
    prompt,    \* the prompt argument
    choices,   \* the choices argument
    sent,      \* the message handed to ctx.elicit
    requests,  \* how many times ctx.elicit was called
    timer,     \* wait_for's timer: "off", "armed", "fired", "cancelled"
    chan,      \* the channel's request: "idle", "pending", "answered", "failed", "cancelled", "late"
    result,    \* what ctx.elicit returned
    raised,    \* what ctx.elicit raised
    raw,       \* the extracted answer, before choice resolution
    outcome,   \* how the call ended: "none", "result", "TimeoutError", "RuntimeError", "Exception"
    ret,       \* the returned dict
    err        \* the raised error's message and cause

vars == <<pc, prompt, choices, sent, requests, timer, chan, result, raised, raw, outcome, ret, err>>

-----------------------------------------------------------------------------
(* Bounds of the model *)

\* longest answer text of an accepted answer object
MaxLen == 3
\* longest text held by the other response shapes
MaxShort == 1
\* longest choices list a caller passes
MaxChoices == 2

-----------------------------------------------------------------------------
(* Characters and Python's string methods *)

\* the decimal digits int() reads
Digits == {"0", "1", "2", "3", "4", "5", "6", "7", "8", "9"}
\* "^2" stands for the one character U+00B2 SUPERSCRIPT TWO: str.isdigit() is
\* true of it, and int() raises ValueError on it
Sup2 == "^2"
DigitLike == Digits \cup {Sup2}
Whitespace == {" ", "\n"}
\* the argument of rstrip(").:]")
TrailSet == {")", ".", ":", "]"}
\* characters a response text is made of
Alphabet == {"p", "P", "0", "1", "2", Sup2, " ", ")"}

TextsUpTo(n) == UNION {[1..k -> Alphabet] : k \in 0..n}

\* str.lower() on one character
LowerChar(c) == IF c = "P" THEN "p" ELSE IF c = "Q" THEN "q" ELSE c

\* str.lower()
Lower(s) == [i \in 1..Len(s) |-> LowerChar(s[i])]

RECURSIVE LStrip(_)
LStrip(s) == IF s # <<>> /\ Head(s) \in Whitespace THEN LStrip(Tail(s)) ELSE s

\* str.rstrip(chars)
RECURSIVE RStripSet(_, _)
RStripSet(s, set) ==
    IF s # <<>> /\ s[Len(s)] \in set THEN RStripSet(SubSeq(s, 1, Len(s) - 1), set) ELSE s

\* str.strip()
Strip(s) == RStripSet(LStrip(s), Whitespace)

\* the characters of s before its first whitespace character
RECURSIVE UntilWhitespace(_)
UntilWhitespace(s) ==
    IF s = <<>> \/ Head(s) \in Whitespace THEN <<>>
    ELSE <<Head(s)>> \o UntilWhitespace(Tail(s))

\* str.split() returns no token at all: split()[0] raises IndexError
SplitIsEmpty(s) == LStrip(s) = <<>>

\* str.split()[0], where it exists
FirstToken(s) == UntilWhitespace(LStrip(s))

\* str.isdigit()
IsDigit(s) == s # <<>> /\ \A i \in 1..Len(s) : s[i] \in DigitLike

\* int(s) returns; otherwise it raises ValueError
CanInt(s) == s # <<>> /\ \A i \in 1..Len(s) : s[i] \in Digits

DigitValue(c) == CASE c = "0" -> 0 [] c = "1" -> 1 [] c = "2" -> 2 [] c = "3" -> 3 [] c = "4" -> 4
                    [] c = "5" -> 5 [] c = "6" -> 6 [] c = "7" -> 7 [] c = "8" -> 8 [] c = "9" -> 9

\* int(token) of a string of decimal digits (Python integers do not overflow)
RECURSIVE ToInt(_)
ToInt(s) == IF s = <<>> THEN 0 ELSE 10 * ToInt(SubSeq(s, 1, Len(s) - 1)) + DigitValue(s[Len(s)])

DigitChar(d) == CASE d = 0 -> "0" [] d = 1 -> "1" [] d = 2 -> "2" [] d = 3 -> "3" [] d = 4 -> "4"
                  [] d = 5 -> "5" [] d = 6 -> "6" [] d = 7 -> "7" [] d = 8 -> "8" [] d = 9 -> "9"

\* str(n) of a non-negative integer
RECURSIVE IntToStr(_)
IntToStr(n) == IF n < 10 THEN <<DigitChar(n)>> ELSE IntToStr(n \div 10) \o <<DigitChar(n % 10)>>

-----------------------------------------------------------------------------
(* Values the channel hands back, and str() of them *)

\* a Python value found in a response: a str, an int, or an object whose
\* conversion to text raises
StrV(s) == [t |-> "str", s |-> s, n |-> 0]
IntV(n) == [t |-> "int", s |-> <<>>, n |-> n]
BadV == [t |-> "bad", s |-> <<>>, n |-> 0]

\* str(v) returns
CanStr(v) == v.t # "bad"

\* str(v)
Str(v) == IF v.t = "int" THEN IntToStr(v.n) ELSE v.s

\* repr(v), as str(dict) prints the dict's values
Repr(v) == IF v.t = "int" THEN IntToStr(v.n) ELSE <<"'">> \o v.s \o <<"'">>

\* str() of an object that defines no text of its own
ObjText == <<"<", "o", "b", "j", ">">>

\* str({"answer": v}) and str({})
DictText(has, v) ==
    IF has THEN <<"{", "'", "a", "n", "s", "w", "e", "r", "'", ":", " ">> \o Repr(v) \o <<"}">>
    ELSE <<"{", "}">>

\* The data payload of a response: absent (None), an object with an answer
\* attribute, a dict (with or without an "answer" entry) or a scalar.
\*   has   - the answer attribute / entry is there
\*   v     - its value (for a scalar: the scalar)
\*   strOk - str(data) returns (an object's __str__ may raise)
NoData == [shape |-> "none", has |-> FALSE, v |-> BadV, strOk |-> TRUE]
ObjData(v, ok) == [shape |-> "obj", has |-> TRUE, v |-> v, strOk |-> ok]
MapData(has, v) == [shape |-> "map", has |-> has, v |-> v, strOk |-> (~has \/ CanStr(v))]
ScalarData(v) == [shape |-> "scalar", has |-> FALSE, v |-> v, strOk |-> CanStr(v)]

\* str(data)
DataText(d) ==
    CASE d.shape = "obj" -> ObjText
      [] d.shape = "map" -> DictText(d.has, d.v)
      [] d.shape = "scalar" -> Str(d.v)

\* The body of the try block on the accept path: [ok, text], ok = FALSE when
\* it raises.
AcceptTry(d) ==
    CASE d.shape = "obj" ->
           \* hasattr(data, "answer"): str(getattr(data, "answer")).strip()
           IF CanStr(d.v) THEN [ok |-> TRUE, text |-> Strip(Str(d.v))]
           ELSE [ok |-> FALSE, text |-> <<>>]
      [] d.shape = "map" ->
           \* str(data.get("answer", "")).strip() or str(data).strip()
           IF d.has /\ ~CanStr(d.v) THEN [ok |-> FALSE, text |-> <<>>]
           ELSE LET entry == IF d.has THEN Strip(Str(d.v)) ELSE <<>>
                IN  IF entry # <<>> THEN [ok |-> TRUE, text |-> entry]
                    ELSE [ok |-> TRUE, text |-> Strip(DataText(d))]
      [] d.shape = "scalar" ->
           \* str(data).strip()
           IF d.strOk THEN [ok |-> TRUE, text |-> Strip(DataText(d))]
           ELSE [ok |-> FALSE, text |-> <<>>]

\* Extraction on the accept path: the try block, and on any exception the
\* handler's own str(data).strip(), which is outside any try.
ExtractAccept(d) ==
    IF AcceptTry(d).ok THEN AcceptTry(d)
    ELSE IF d.strOk THEN [ok |-> TRUE, text |-> Strip(DataText(d))]
    ELSE [ok |-> FALSE, text |-> <<>>]

\* The channel's result: an object (with an action attribute or none, a data
\* attribute or none, possibly an answer attribute), a dict, or a scalar.
ObjResult(a, d, has, v, ok) ==
    [shape |-> "obj", action |-> a, data |-> d, has |-> has, v |-> v, strOk |-> ok]
MapResult(has, v) ==
    [shape |-> "map", action |-> "none", data |-> NoData, has |-> has, v |-> v,
     strOk |-> (~has \/ CanStr(v))]
ScalarResult(v) ==
    [shape |-> "scalar", action |-> "none", data |-> NoData, has |-> FALSE, v |-> v,
     strOk |-> CanStr(v)]

ActionText(a) ==
    CASE a = "accept" -> <<"a", "c", "c", "e", "p", "t">>
      [] a = "decline" -> <<"d", "e", "c", "l", "i", "n", "e">>
      [] a = "cancel" -> <<"c", "a", "n", "c", "e", "l">>
      [] a = "none" -> <<>>

\* str(result)
ResultText(r) ==
    CASE r.shape = "obj" ->
           IF r.action = "none" THEN ObjText
           ELSE <<"a", "c", "t", "i", "o", "n", "=", "'">> \o ActionText(r.action) \o <<"'">>
      [] r.shape = "map" -> DictText(r.has, r.v)
      [] r.shape = "scalar" -> Str(r.v)

ExtractDirectFromData(r) ==
    IF r.data.shape = "obj" /\ CanStr(r.data.v) THEN Strip(Str(r.data.v))
    ELSE IF r.has THEN (IF CanStr(r.v) THEN Strip(Str(r.v)) ELSE <<>>)
    ELSE IF r.strOk THEN Strip(ResultText(r)) ELSE <<>>

\* Lines 132-141: direct extraction from the result itself; every exception
\* yields "".
ExtractDirect(r) ==
    IF r.has
    THEN \* an answer attribute, or an "answer" key of a dict
         IF CanStr(r.v) THEN Strip(Str(r.v)) ELSE <<>>
    ELSE IF r.strOk THEN Strip(ResultText(r)) ELSE <<>>

\* Lines 114-141: the answer text extracted from the channel's result.
Extract(r) ==
    IF r.action = "accept" /\ r.data.shape # "none"
    THEN ExtractAccept(r.data)
    ELSE [ok |-> TRUE, text |-> ExtractDirect(r)]

-----------------------------------------------------------------------------
(* The choices argument, the display prompt and choice resolution *)

\* choices: Optional[List[str]]; given = FALSE is None
NoChoices == [given |-> FALSE, list |-> <<>>]
SomeChoices(l) == [given |-> TRUE, list |-> l]

\* `if choices:`
Truthy(c) == c.given /\ c.list # <<>>

NL == "\n"
OptionsHeader == <<"O", "p", "t", "i", "o", "n", "s", ":">>
TypeHint == <<"(", "T", "y", "p", "e", " ", "t", "h", "e", " ", "v", "a", "l", "u", "e", " ",
              "o", "r", " ", "i", "t", "s", " ", "n", "u", "m", "b", "e", "r", ")">>

\* f"{i+1}) {str(c)}" for the choice at 0-based position i = k - 1
OptionLine(k, c) == IntToStr(k) \o <<")", " ">> \o c

\* "\n".join(lines)
RECURSIVE JoinLines(_)
JoinLines(ls) ==
    IF ls = <<>> THEN <<>>
    ELSE IF Len(ls) = 1 THEN ls[1]
    ELSE ls[1] \o <<NL>> \o JoinLines(Tail(ls))

DisplayPromptZeroBased(p, c) ==
    IF Truthy(c)
    THEN p \o <<NL, NL>> \o OptionsHeader \o <<NL>>
           \o JoinLines([k \in 1..Len(c.list) |-> OptionLine(k - 1, c.list[k])])
           \o <<NL>> \o TypeHint
    ELSE p

\* Lines 91-94
DisplayPrompt(p, c) ==
    IF Truthy(c)
    THEN p \o <<NL, NL>> \o OptionsHeader \o <<NL>>
           \o JoinLines([k \in 1..Len(c.list) |-> OptionLine(k, c.list[k])])
           \o <<NL>> \o TypeHint
    ELSE p

Nothing == [found |-> FALSE, text |-> <<>>]
Just(t) == [found |-> TRUE, text |-> t]

NumericSelectZeroBased(list, r) ==
    IF SplitIsEmpty(r) THEN Nothing
    ELSE LET token == RStripSet(FirstToken(r), TrailSet)
         IN  IF IsDigit(token) /\ CanInt(token) /\ 0 <= ToInt(token) /\ ToInt(token) < Len(list)
             THEN Just(list[ToInt(token) + 1])
             ELSE Nothing

\* Lines 148-155: the numeric selection; an exception (IndexError when there
\* is no token at all, ValueError from int) leaves selected = None
NumericSelect(list, r) ==
    IF SplitIsEmpty(r) THEN Nothing
    ELSE LET token == RStripSet(FirstToken(r), TrailSet)
         IN  IF ~IsDigit(token) THEN Nothing
             ELSE IF ~CanInt(token) THEN Nothing
             ELSE IF 1 <= ToInt(token) /\ ToInt(token) <= Len(list)
                  THEN Just(list[ToInt(token)])
                  ELSE Nothing

TextSelectCaseSensitive(list, r) ==
    IF \E i \in 1..Len(list) : r = list[i]
    THEN Just(list[CHOOSE i \in 1..Len(list) :
                     r = list[i] /\ \A j \in 1..(i - 1) : r # list[j]])
    ELSE Nothing

\* Lines 157-160: the first choice equal to raw, ignoring case
RECURSIVE TextSelect(_, _)
TextSelect(list, r) ==
    IF list = <<>> THEN Nothing
    ELSE IF Lower(r) = Lower(Head(list)) THEN Just(Head(list))
    ELSE TextSelect(Tail(list), r)

ResolveOrFirst(c, answer) ==
    IF Truthy(c)
    THEN LET r == Strip(answer)
             num == NumericSelect(c.list, r)
             sel == IF num.found THEN num ELSE TextSelect(c.list, r)
         IN  IF sel.found THEN sel.text ELSE c.list[1]
    ELSE answer

\* Lines 144-163
Resolve(c, answer) ==
    IF Truthy(c)
    THEN LET r == Strip(answer)
             num == NumericSelect(c.list, r)
             sel == IF num.found THEN num ELSE TextSelect(c.list, r)
         IN  IF sel.found THEN sel.text ELSE answer
    ELSE answer

-----------------------------------------------------------------------------
(* The inputs of a call and the channel's answers *)

\* the prompt is never inspected by the code, only concatenated and returned:
\* one prompt with a leading blank, a capital and a trailing line break
Prompts == {<<" ", "Q", NL>>}
ChoiceTexts == {<<"p">>, <<"P">>, <<"2">>}
ChoiceLists == UNION {[1..k -> ChoiceTexts] : k \in 0..MaxChoices}
ChoiceArgs == {NoChoices} \cup {SomeChoices(l) : l \in ChoiceLists}

Texts == TextsUpTo(MaxLen)
Ints == {IntV(n) : n \in {0, 2, 10}}
Values == {StrV(s) : s \in Texts} \cup Ints \cup {BadV}
ShortValues == {StrV(s) : s \in TextsUpTo(MaxShort)} \cup Ints \cup {BadV}
SampleValues == {StrV(<<"2">>), StrV(<<" ", "P">>), BadV}
SampleData == ObjData(StrV(<<"p">>), TRUE)

Actions == {"accept", "decline", "cancel", "none"}

Payloads ==
    {ObjData(v, TRUE) : v \in Values}
      \cup {ObjData(v, FALSE) : v \in SampleValues}
      \cup {MapData(FALSE, BadV)}
      \cup {MapData(TRUE, v) : v \in ShortValues}
      \cup {ScalarData(v) : v \in ShortValues}

Results ==
    {ObjResult("accept", d, FALSE, BadV, TRUE) : d \in Payloads}
      \cup {ObjResult("accept", SampleData, TRUE, v, TRUE) : v \in SampleValues}
      \cup {ObjResult(a, NoData, TRUE, v, TRUE) : a \in Actions, v \in ShortValues}
      \cup {ObjResult(a, NoData, FALSE, BadV, ok) : a \in Actions, ok \in BOOLEAN}
      \cup {ObjResult(a, SampleData, FALSE, BadV, ok) : a \in Actions \ {"accept"}, ok \in BOOLEAN}
      \cup {ObjResult(a, SampleData, TRUE, v, TRUE) : a \in Actions \ {"accept"}, v \in SampleValues}
      \cup {MapResult(FALSE, BadV)}
      \cup {MapResult(TRUE, v) : v \in ShortValues}
      \cup {ScalarResult(v) : v \in ShortValues}

NoResult == [shape |-> "unset", action |-> "none", data |-> NoData, has |-> FALSE, v |-> BadV,
             strOk |-> TRUE]

\* what the channel may raise: an asyncio.TimeoutError of its own, or any
\* other Exception
NoExc == [kind |-> "none", msg |-> ""]
Exceptions == {[kind |-> k, msg |-> m] : k \in {"TimeoutError", "ConnectionError", "ValueError"},
                                          m \in {"", "closed"}}

NoRet == [question |-> <<>>, answer |-> <<>>]
NoErr == [message |-> <<"", "">>, cause |-> NoExc]
\* line 109; raised inside the except block without `from`
TimeoutErr == [message |-> <<"MCP error -32001: Clarification request timed out after 60 seconds", "">>,
               cause |-> NoExc]
\* line 112: f"Elicitation failed: {str(e)}", raised `from e`
RuntimeErr(e) == [message |-> <<"Elicitation failed: ", e.msg>>, cause |-> e]

-----------------------------------------------------------------------------
(* The call *)

Init ==
    /\ pc = "idle"
    /\ prompt = <<>>
    /\ choices = NoChoices
    /\ sent = <<>>
    /\ requests = 0
    /\ timer = "off"
    /\ chan = "idle"
    /\ result = NoResult
    /\ raised = NoExc
    /\ raw = <<>>
    /\ outcome = "none"
    /\ ret = NoRet
    /\ err = NoErr

\* Lines 91-107: the call builds the display prompt, calls ctx.elicit once
\* under wait_for and suspends.
Call(p, c) ==
    /\ pc = "idle"
    /\ prompt' = p
    /\ choices' = c
    /\ sent' = DisplayPrompt(p, c)
    /\ requests' = requests + 1
    /\ timer' = "armed"
    /\ chan' = "pending"
    /\ pc' = "waiting"
    /\ UNCHANGED <<result, raised, raw, outcome, ret, err>>

\* Lines 104-107 and 114-165: ctx.elicit returns r before the timer fires;
\* the call extracts the answer, resolves it against choices and returns.
\* An exception of the accept path's handler (line 129) leaves the call.
Respond(r) ==
    /\ pc = "waiting"
    /\ result' = r
    /\ chan' = "answered"
    /\ timer' = "cancelled"
    /\ pc' = "done"
    /\ LET e == Extract(r)
       IN  IF e.ok
           THEN /\ raw' = e.text
                /\ ret' = [question |-> prompt, answer |-> Resolve(choices, e.text)]
                /\ outcome' = "result"
           ELSE /\ outcome' = "Exception"
                /\ UNCHANGED <<raw, ret>>
    /\ UNCHANGED <<prompt, choices, sent, requests, raised, err>>

\* Lines 108-112: ctx.elicit raises e before the timer fires.
ChannelRaise(e) ==
    /\ pc = "waiting"
    /\ raised' = e
    /\ chan' = "failed"
    /\ timer' = "cancelled"
    /\ pc' = "done"
    /\ IF e.kind = "TimeoutError"
       THEN outcome' = "TimeoutError" /\ err' = TimeoutErr
       ELSE outcome' = "RuntimeError" /\ err' = RuntimeErr(e)
    /\ UNCHANGED <<prompt, choices, sent, requests, result, raw, ret>>

TimerExpireRetry ==
    /\ pc = "waiting"
    /\ requests < 3
    /\ requests' = requests + 1
    /\ UNCHANGED <<pc, prompt, choices, sent, timer, chan, result, raised, raw, outcome, ret, err>>

\* Line 104: the 60 seconds pass with no answer; wait_for cancels the
\* pending ctx.elicit.
TimerExpire ==
    /\ pc = "waiting"
    /\ timer' = "fired"
    /\ chan' = "cancelled"
    /\ pc' = "expired"
    /\ UNCHANGED <<prompt, choices, sent, requests, result, raised, raw, outcome, ret, err>>

RaiseTimeoutAsFailure ==
    /\ pc = "expired"
    /\ outcome' = "RuntimeError"
    /\ err' = RuntimeErr([kind |-> "TimeoutError", msg |-> ""])
    /\ pc' = "done"
    /\ UNCHANGED <<prompt, choices, sent, requests, timer, chan, result, raised, raw, ret>>

\* Lines 108-109: wait_for raises asyncio.TimeoutError; the call raises
\* TimeoutError.
RaiseTimeout ==
    /\ pc = "expired"
    /\ outcome' = "TimeoutError"
    /\ err' = TimeoutErr
    /\ pc' = "done"
    /\ UNCHANGED <<prompt, choices, sent, requests, timer, chan, result, raised, raw, ret>>

\* The human answers a request that wait_for has cancelled: nobody awaits it.
LateResponse ==
    /\ chan = "cancelled"
    /\ chan' = "late"
    /\ UNCHANGED <<pc, prompt, choices, sent, requests, timer, result, raised, raw, outcome, ret, err>>

Next ==
    \/ \E p \in Prompts, c \in ChoiceArgs : Call(p, c)
    \/ \E r \in Results : Respond(r)
    \/ \E e \in Exceptions : ChannelRaise(e)
    \/ TimerExpire
    \/ RaiseTimeout
    \/ LateResponse

Spec == Init /\ [][Next]_vars

\* The event loop runs a cancelled wait_for to its end.
FairSpec == Spec /\ WF_vars(RaiseTimeout)

-----------------------------------------------------------------------------
(* Properties *)

Done == pc = "done"
Returned == outcome = "result"
Answered == chan = "answered"

\* the accept path was taken: action is accept and a data payload is there
OnAcceptPath == result.action = "accept" /\ result.data.shape # "none"

\* the digit string ds denotes the positive integer i (leading zeros allowed)
Denotes(ds, i) ==
    \E z \in 0..(Len(ds) - 1) :
        /\ \A j \in 1..z : ds[j] = "0"
        /\ SubSeq(ds, z + 1, Len(ds)) = IntToStr(i)

\* the first whitespace-delimited token of the trimmed answer r is a string of
\* decimal digits denoting i, followed by characters of ")", ".", ":", "]" only
TokenIsIndex(r, i) ==
    \E k \in 1..Len(r), m \in 1..Len(r) :
        /\ m <= k
        /\ \A j \in 1..k : r[j] \notin Whitespace
        /\ k = Len(r) \/ r[k + 1] \in Whitespace
        /\ \A j \in 1..m : r[j] \in Digits
        /\ \A j \in (m + 1)..k : r[j] \in {")", ".", ":", "]"}
        /\ Denotes(SubSeq(r, 1, m), i)

\* the answer carries an index into a list of n choices
HasIndexIn(r, n) == \E i \in 1..n : TokenIsIndex(r, i)

\* a and b are equal up to the case of their letters
SameIgnoringCase(a, b) ==
    /\ Len(a) = Len(b)
    /\ \A k \in 1..Len(a) : LowerChar(a[k]) = LowerChar(b[k])

Trimmed(r) == r = <<>> \/ (r[1] \notin Whitespace /\ r[Len(r)] \notin Whitespace)

\* s split at its line breaks
RECURSIVE SplitLines(_)
SplitLines(s) ==
    IF \E k \in 1..Len(s) : s[k] = NL
    THEN LET k == CHOOSE k \in 1..Len(s) : s[k] = NL /\ \A j \in 1..(k - 1) : s[j] # NL
         IN  <<SubSeq(s, 1, k - 1)>> \o SplitLines(SubSeq(s, k + 1, Len(s)))
    ELSE <<s>>

\* C1: every call issues exactly one ctx.elicit request: once the call has
\* started, and in every terminal state (result, timeout, channel failure),
\* the number of requests is 1.
C1_OneRequest == pc # "idle" => requests = 1

C1_Witness == Done /\ timer = "fired" /\ outcome = "TimeoutError" /\ requests = 1

\* C2: once the 60-second timer has fired the call never ends in RuntimeError
\* and never returns a result, also when the response arrives late, and it
\* eventually fails with TimeoutError.
C2_TimeoutFails ==
    /\ [](timer = "fired" => (outcome \in {"none", "TimeoutError"} /\ ret = NoRet))
    /\ (timer = "fired") ~> (outcome = "TimeoutError" /\ err = TimeoutErr)

C2_Witness == chan = "late" /\ Done /\ outcome = "TimeoutError" /\ ret = NoRet

\* C3: whenever the channel itself raised before the timer fired, whatever the
\* kind of its exception, the call fails with RuntimeError wrapping the
\* exception's message, with the exception as cause.
C3_ChannelFailureWrapped ==
    chan = "failed" => (outcome = "RuntimeError" /\ err = RuntimeErr(raised))

\* C4: a finished call has one of three outcomes - a result, TimeoutError,
\* RuntimeError - and once the channel has returned a response the call returns
\* a result.
C4_ThreeOutcomes ==
    /\ Done => outcome \in {"result", "TimeoutError", "RuntimeError"}
    /\ Answered => Returned

\* C5: with non-empty choices, an answer whose first token is a decimal index
\* i in 1..len(choices), after stripping trailing ")", ".", ":", "]", resolves
\* to choices[i-1], whatever follows the token and whatever the answer equals
\* textually.
C5_NumericResolution ==
    (Returned /\ Truthy(choices)) =>
        \A i \in 1..Len(choices.list) :
            TokenIsIndex(raw, i) => ret.answer = choices.list[i]

C5_Witness ==
    /\ Returned
    /\ choices = SomeChoices(<< <<"2">>, <<"p">> >>)
    /\ raw = <<"2", ")">>
    /\ ret.answer = <<"p">>

\* C6: with non-empty choices and no in-range numeric index, the answer
\* resolves to the first choice, in list order, that equals it ignoring case.
C6_TextualResolution ==
    (Returned /\ Truthy(choices) /\ ~HasIndexIn(raw, Len(choices.list))) =>
        \A i \in 1..Len(choices.list) :
            (/\ SameIgnoringCase(raw, choices.list[i])
             /\ \A j \in 1..(i - 1) : ~SameIgnoringCase(raw, choices.list[j]))
            => ret.answer = choices.list[i]

C6_Witness ==
    /\ Returned
    /\ choices = SomeChoices(<< <<"p">>, <<"P">> >>)
    /\ raw = <<"P">>
    /\ ret.answer = <<"p">>

\* C7: the returned answer is a choice or the trimmed extracted answer; it is
\* the trimmed extracted answer when no in-range index and no textual match
\* exists, and always when choices is absent or empty.
C7_NoMatchPreserved ==
    Returned =>
        /\ Trimmed(raw)
        /\ IF Truthy(choices)
           THEN /\ \/ ret.answer = raw
                   \/ \E i \in 1..Len(choices.list) : ret.answer = choices.list[i]
                /\ (/\ ~HasIndexIn(raw, Len(choices.list))
                    /\ \A i \in 1..Len(choices.list) : ~SameIgnoringCase(raw, choices.list[i]))
                   => ret.answer = raw
           ELSE ret.answer = raw

C7_Witness ==
    /\ Returned
    /\ Truthy(choices)
    /\ raw = <<"0">>
    /\ ret.answer = <<"0">>

C9_MappingEntry ==
    (Returned /\ OnAcceptPath /\ result.data.shape = "map") =>
        IF result.data.has
        THEN raw = Strip(Str(result.data.v))
        ELSE raw = <<"{", "}">>

\* C10: when the action is not accept, or no data payload is there, the call
\* returns; the answer is extracted from the result itself (its answer
\* attribute or key, else its text, else "" when that fails), the data payload
\* is ignored, and the choices are resolved against that text.
C10_DirectExtraction ==
    (Answered /\ ~OnAcceptPath) =>
        /\ Returned
        /\ raw = IF result.has
                 THEN (IF result.v.t = "bad" THEN <<>> ELSE Strip(Str(result.v)))
                 ELSE (IF result.strOk THEN Strip(ResultText(result)) ELSE <<>>)
        /\ ret.answer = Resolve(choices, raw)

C10_Witness ==
    /\ Returned
    /\ result.action = "decline"
    /\ result.data = SampleData
    /\ raw = <<"2">>
    /\ choices = SomeChoices(<< <<"P">>, <<"p">> >>)
    /\ ret.answer = <<"p">>

====
